---- MODULE Spec2Model ----
(***************************************************************************)
(* Model of the online-nursery server (src/src/index.ts): the order        *)
(* placement workflow (POST /api/orders), the order status update          *)
(* (PUT /api/orders/:id), the product update and delete endpoints, and the *)
(* product list query (GET /api/products).                                 *)
(*                                                                         *)
(* Every `await` of a handler is a point where the handler is suspended    *)
(* and other requests run, so a handler is one action per store call; the  *)
(* synchronous code between two awaits belongs to the action of the store  *)
(* call that precedes it.                                                  *)
(***************************************************************************)
EXTENDS Integers, Sequences, FiniteSets, TLC

\* ---------------- bounds
NReq == 2
NProd == 2
MaxItems == 2
MaxQty == 2
MaxStock == 2
MaxOps == 2
MaxAdminItems == 1

Reqs == 1..NReq
Pids == 1..NProd
\* A line item may name any product id, also a well-formed id that no
\* document has: id 0 is never a document of the collection.
ItemPids == 0..NProd
Prices == {5, 10}

VARIABLES
    products,      \* the Product collection: id -> document
    orders,        \* the Order collection: the order saved by request r
    pc,            \* where the POST /api/orders handler of request r stands
    body,          \* req.body of request r
    totalAmount,   \* the handler's local totalAmount
    cursor,        \* how many items the handler's current loop has passed
    applied,       \* how many $inc updates of request r changed a document
    adminResp,     \* status code of the last PUT/DELETE response
    ops,           \* how many PUT/DELETE requests were served
    query,         \* req.query of the product list requests, but for its page
    strictQuery,   \* Mongoose's strictQuery option, set by its version
    served,        \* page parameter -> the last response to GET /api/products
    before,        \* the Product collection when the isolated request began
    initial        \* the Product collection of the initial state

vars == <<products, orders, pc, body, totalAmount, cursor, applied, adminResp,
          ops, query, strictQuery, served, before, initial>>

\* ---------------- schemas
\* Text is a sequence of characters. An optional value is a sequence of at
\* most one element: <<>> is undefined, <<v>> is the value v.
Opt(S) == {<<>>} \cup {<<x>> : x \in S}

\* productSchema; `exists` tells a document from the null a lookup returns.
\* createdAt (timestamps: true) grows with the order of insertion.
NoProduct ==
    [exists |-> FALSE, name |-> <<>>, description |-> <<>>, price |-> 0,
     stock |-> 0, category |-> <<>>, rating |-> <<>>, createdAt |-> 0]

Document(id, name, description, price, stock, category, rating) ==
    [exists |-> TRUE, name |-> name, description |-> description,
     price |-> price, stock |-> stock, category |-> category,
     rating |-> rating, createdAt |-> id]

\* A product of the specifications of the order workflow, which reads its
\* price and stock only.
Product(id, price, stock) ==
    Document(id, <<"a">>, <<"b">>, price, stock, <<"A">>, <<>>)

\* orderSchema.status enum
Statuses == {"pending", "processing", "shipped", "delivered", "cancelled"}

Customers == {[name |-> "n", phoneNumber |-> "1", address |-> "a"]}

NoCustomer == [name |-> "", phoneNumber |-> "", address |-> ""]

NoOrder ==
    [exists |-> FALSE, customer |-> NoCustomer, products |-> <<>>,
     totalAmount |-> 0, status |-> ""]

\* IOrderItem
Items == [productId : ItemPids, quantity : 1..MaxQty]

ItemSeqs == UNION {[1..n -> Items] : n \in 0..MaxItems}

Bodies == [customer : Customers, products : ItemSeqs]

NoBody == [customer |-> NoCustomer, products |-> <<>>]

\* ---------------- store
\* Product.findById: the document, or null
FindById(prods, id) == IF id \in DOMAIN prods THEN prods[id] ELSE NoProduct

\* The stock is lowered by one unit, whatever the quantity.
IncStock_ByOne(prods, id, quantity) ==
    IF FindById(prods, id).exists
    THEN [prods EXCEPT ![id].stock = @ - 1]
    ELSE prods

\* Product.findByIdAndUpdate(id, {$inc: {stock: -quantity}}): one atomic
\* update of the matching document; no document, no change and no error.
IncStock(prods, id, quantity) ==
    IF FindById(prods, id).exists
    THEN [prods EXCEPT ![id].stock = @ - quantity]
    ELSE prods

\* ---------------- POST /api/orders
InFlight == {"check", "save", "dec"}
Finished == {"ok", "r400", "r404", "r500"}

\* The handler returns: its locals are gone.
Return(r, code) ==
    /\ pc' = [pc EXCEPT ![r] = code]
    /\ body' = [body EXCEPT ![r] = NoBody]
    /\ totalAmount' = [totalAmount EXCEPT ![r] = 0]
    /\ cursor' = [cursor EXCEPT ![r] = 0]

\* The request arrives; the handler runs up to its first store call.
Receive(r, b) ==
    /\ pc[r] = "idle"
    /\ pc' = [pc EXCEPT ![r] = IF b.products = <<>> THEN "save" ELSE "check"]
    /\ body' = [body EXCEPT ![r] = b]
    /\ totalAmount' = [totalAmount EXCEPT ![r] = 0]
    /\ cursor' = [cursor EXCEPT ![r] = 0]
    /\ UNCHANGED <<products, orders, applied, adminResp, ops, initial, query,
                   strictQuery, served>>

PlaceOrder(r, b) == Receive(r, b) /\ UNCHANGED before

\* The same request, arriving while no other order placement is in flight.
PlaceOrderAlone(r, b) ==
    /\ \A q \in Reqs : pc[q] \notin InFlight
    /\ Receive(r, b)
    /\ before' = products

\* The off-by-one slip: the last unit in stock cannot be told from a unit
\* that is not there.
Verdict_OffByOne(product, item) ==
    IF ~product.exists THEN "r404"
    ELSE IF product.stock < item.quantity - 1 THEN "r400"
    ELSE "pass"

\* The lookup's result is not tested: null reads as a product out of stock.
Verdict_NoNullCheck(product, item) ==
    IF product.stock < item.quantity THEN "r400" ELSE "pass"

\* The two checks of the validation loop on the document looked up.
Verdict(product, item) ==
    IF ~product.exists THEN "r404"
    ELSE IF product.stock < item.quantity THEN "r400"
    ELSE "pass"

\* The unit price alone is added.
LineAmount_NoQuantity(product, item) == product.price

\* product.price * item.quantity
LineAmount(product, item) == product.price * item.quantity

\* One turn of the validation loop: the lookup and the checks on its result.
CheckItem(r) ==
    /\ pc[r] = "check"
    /\ LET item == body[r].products[cursor[r] + 1]
           product == FindById(products, item.productId)
       IN  IF Verdict(product, item) # "pass"
           THEN Return(r, Verdict(product, item))
           ELSE /\ totalAmount' =
                     [totalAmount EXCEPT ![r] = @ + LineAmount(product, item)]
                /\ cursor' =
                     [cursor EXCEPT ![r] =
                        IF @ + 1 = Len(body[r].products) THEN 0 ELSE @ + 1]
                /\ pc' =
                     [pc EXCEPT ![r] =
                        IF cursor[r] + 1 = Len(body[r].products)
                        THEN "save" ELSE "check"]
                /\ UNCHANGED body
    /\ UNCHANGED <<products, orders, applied, adminResp, ops, before, initial,
                   query, strictQuery, served>>

\* new Order({...}) and order.save()
SaveOrder(r) ==
    /\ pc[r] = "save"
    /\ orders' =
         [orders EXCEPT ![r] =
            [exists |-> TRUE, customer |-> body[r].customer,
             products |-> body[r].products,
             totalAmount |-> totalAmount[r], status |-> "pending"]]
    /\ IF body[r].products = <<>>
       THEN Return(r, "ok")
       ELSE /\ pc' = [pc EXCEPT ![r] = "dec"]
            /\ UNCHANGED <<body, totalAmount, cursor>>
    /\ UNCHANGED <<products, applied, adminResp, ops, before, initial, query,
                   strictQuery, served>>

\* One turn of the decrement loop.
DecItem(r) ==
    /\ pc[r] = "dec"
    /\ LET item == body[r].products[cursor[r] + 1]
       IN  /\ products' = IncStock(products, item.productId, item.quantity)
           /\ applied' =
                [applied EXCEPT ![r] =
                   IF FindById(products, item.productId).exists
                   THEN @ + 1 ELSE @]
    /\ IF cursor[r] + 1 = Len(body[r].products)
       THEN Return(r, "ok")
       ELSE /\ cursor' = [cursor EXCEPT ![r] = @ + 1]
            /\ UNCHANGED <<pc, body, totalAmount>>
    /\ UNCHANGED <<orders, adminResp, ops, before, initial, query,
                   strictQuery, served>>

\* An awaited store call of the handler rejects: the catch block hands the
\* error to the error middleware, which answers 500. Nothing is rolled back.
StoreFail(r) ==
    /\ pc[r] \in InFlight
    /\ Return(r, "r500")
    /\ UNCHANGED <<products, orders, applied, adminResp, ops, before, initial,
                   query, strictQuery, served>>

\* ---------------- PUT /api/orders/:id
\* One more PUT/DELETE request is served; a behaviour holds at most MaxOps.
Served == ops < MaxOps /\ ops' = ops + 1

Strings == Statuses \cup {"", "returned"}

\* req.body of a status update: a status, and maybe fields the handler
\* does not read
StatusBodies == [status : Strings] \cup [status : Strings, totalAmount : {0}]

\* No validator runs: runValidators is left out.
ValidStatus_Any(s) == TRUE

\* The enum validator of orderSchema.status, run by runValidators.
ValidStatus(s) == s \in Statuses

\* The whole req.body is handed to the update.
StatusUpdate_WholeBody(order, b) ==
    [order EXCEPT
       !.status = b.status,
       !.totalAmount = IF "totalAmount" \in DOMAIN b THEN b.totalAmount ELSE @]

\* The update { status } applied to the order.
StatusUpdate(order, b) == [order EXCEPT !.status = b.status]

\* const { status } = req.body; Order.findByIdAndUpdate(id, { status }, ...)
\* The update validators run before the store is asked for the document.
UpdateOrderStatus(id, b) ==
    /\ Served
    /\ IF ~ValidStatus(b.status)
       THEN adminResp' = 500 /\ UNCHANGED orders
       ELSE IF ~orders[id].exists
       THEN adminResp' = 404 /\ UNCHANGED orders
       ELSE /\ adminResp' = 200
            /\ orders' = [orders EXCEPT ![id] = StatusUpdate(@, b)]
    /\ UNCHANGED <<products, pc, body, totalAmount, cursor, applied, before,
                   initial, query, strictQuery, served>>

\* ---------------- PUT, DELETE /api/products/:id
\* req.body of a product update: any of the keys price, stock
ProductBodies ==
    [price : Prices] \cup [stock : 0..MaxStock]
        \cup [price : Prices, stock : 0..MaxStock]

\* Product.findByIdAndUpdate(req.params.id, req.body, ...)
UpdateProduct(id, b) ==
    /\ Served
    /\ IF ~FindById(products, id).exists
       THEN adminResp' = 404 /\ UNCHANGED products
       ELSE /\ adminResp' = 200
            /\ products' =
                 [products EXCEPT
                    ![id].price = IF "price" \in DOMAIN b THEN b.price ELSE @,
                    ![id].stock = IF "stock" \in DOMAIN b THEN b.stock ELSE @]
    /\ UNCHANGED <<orders, pc, body, totalAmount, cursor, applied, before,
                   initial, query, strictQuery, served>>

\* Product.findByIdAndDelete(req.params.id)
DeleteProduct(id) ==
    /\ Served
    /\ IF ~FindById(products, id).exists
       THEN adminResp' = 404 /\ UNCHANGED products
       ELSE /\ adminResp' = 200
            /\ products' = [products EXCEPT ![id] = NoProduct]
    /\ UNCHANGED <<orders, pc, body, totalAmount, cursor, applied, before,
                   initial, query, strictQuery, served>>

\* ---------------- GET /api/products
\* Query parameters arrive as strings. searchTerm, categories and category
\* are text; the numeric parameters are numerals or other strings.
Numerals == {"0", "1", "2", "3", "5", "10"}

Numeral(s) ==
    CASE s = "0" -> 0 [] s = "1" -> 1 [] s = "2" -> 2 [] s = "3" -> 3
      [] s = "5" -> 5 [] s = "10" -> 10

\* Number(v) of JavaScript on an optional string: <<>> is NaN.
NumberJS(v) ==
    IF v # <<>> /\ v[1] \in Numerals THEN <<Numeral(v[1])>> ELSE <<>>

\* Number(v) || d: NaN and 0 are falsy.
OrDefault(n, d) == IF n = <<>> \/ n[1] = 0 THEN d ELSE n[1]

DefaultPage == 1
DefaultLimit == 10

Lower(c) == CASE c = "A" -> "a" [] c = "B" -> "b" [] OTHER -> c

\* { $regex: pattern, $options: "i" } for a pattern of letters: the pattern
\* occurs somewhere in the text, letter case ignored.
RegexTest(pattern, text) ==
    \E off \in 0..(Len(text) - Len(pattern)) :
        \A k \in 1..Len(pattern) : Lower(pattern[k]) = Lower(text[off + k])

RECURSIVE Split(_)
\* text.split(",")
Split(text) ==
    IF text = <<>> THEN << <<>> >>
    ELSE IF Head(text) = "," THEN << <<>> >> \o Split(Tail(text))
    ELSE LET rest == Split(Tail(text))
         IN  << <<Head(text)>> \o Head(rest) >> \o Tail(rest)

Range(f) == {f[x] : x \in DOMAIN f}

\* The paths of productSchema.
SchemaPaths ==
    {"name", "description", "price", "stock", "category", "rating", "image_url"}

\* A filter condition { path: { $in: values } } where the documents hold
\* `held` under the path, if any. On a path that productSchema does not have,
\* Mongoose drops the condition under strictQuery and hands it to the store
\* otherwise, where no document holds a value under the path.
InCondition(path, values, held, strict) ==
    IF path \in SchemaPaths THEN held \in values
    ELSE strict

\* (query?.searchTerm as string) || ""
SearchTerm(q) == IF q.searchTerm = <<>> THEN <<>> ELSE q.searchTerm[1]

\* Does the document pass the $or of the search and filterConditions.
Matches(doc, q, strict) ==
    /\ doc.exists
    /\ \/ RegexTest(SearchTerm(q), doc.name)
       \/ RegexTest(SearchTerm(q), doc.description)
    /\ q.category # <<>> => doc.category = q.category[1]
    /\ q.minPrice # <<>> => doc.price >= NumberJS(q.minPrice)[1]
    /\ q.maxPrice # <<>> => doc.price <= NumberJS(q.maxPrice)[1]
    /\ (q.categories # <<>> /\ q.categories[1] # <<>>)
         => InCondition("categories", Range(Split(q.categories[1])),
                        doc.category, strict)
    /\ q.minRating # <<>>
         => doc.rating # <<>> /\ doc.rating[1] >= NumberJS(q.minRating)[1]

Matched(prods, q, strict) == {p \in DOMAIN prods : Matches(prods[p], q, strict)}

\* const sortTerm = query?.sortTerm || "createdAt"; the value sorted on
SortKey(doc, q) ==
    LET sortTerm == IF q.sortTerm = <<>> THEN "createdAt" ELSE q.sortTerm[1]
    IN  CASE sortTerm = "createdAt" -> doc.createdAt
          [] sortTerm = "price" -> doc.price
          [] OTHER -> 0

\* sortOrder === "desc" ? -1 : 1
SortOrder(q) == IF q.sortOrder = <<"desc">> THEN -1 ELSE 1

\* .sort({ [sortTerm]: sortOrder }): the store returns the matching documents
\* in an order that respects the sort key, and promises no order among documents
\* whose keys are equal.
Orderings(prods, q, strict) ==
    LET M == Matched(prods, q, strict)
    IN  {s \in [1..Cardinality(M) -> M] :
           /\ \A i, j \in DOMAIN s : i # j => s[i] # s[j]
           /\ \A i, j \in DOMAIN s :
                i < j => SortOrder(q) * SortKey(prods[s[i]], q)
                           <= SortOrder(q) * SortKey(prods[s[j]], q)}

\* .skip(skip).limit(limit)
Slice(s, skip, limit) ==
    SubSeq(s, skip + 1, IF skip + limit < Len(s) THEN skip + limit ELSE Len(s))

PageParams == Opt({"abc", "1", "2", "3"})

NotServed == [status |-> 0, data |-> <<>>]

\* The handler, for the query of the state with page parameter pg.
GetProducts(pg) ==
    /\ LET page == OrDefault(NumberJS(pg), DefaultPage)
           limit == OrDefault(NumberJS(query.limit), DefaultLimit)
           skip == (page - 1) * limit
       IN  \E s \in Orderings(products, query, strictQuery) :
               served' =
                 [served EXCEPT ![pg] =
                    [status |-> 200, data |-> Slice(s, skip, limit)]]
    /\ UNCHANGED <<products, orders, pc, body, totalAmount, cursor, applied,
                   adminResp, ops, query, strictQuery, before, initial>>

\* ---------------- initial states
NoQuery ==
    [searchTerm |-> <<>>, minPrice |-> <<>>, maxPrice |-> <<>>,
     categories |-> <<>>, minRating |-> <<>>, category |-> <<>>,
     sortTerm |-> <<>>, sortOrder |-> <<>>, limit |-> <<>>]

\* No order placement and no PUT or DELETE request yet.
InitWorkflow ==
    /\ orders = [r \in Reqs |-> NoOrder]
    /\ pc = [r \in Reqs |-> "idle"]
    /\ body = [r \in Reqs |-> NoBody]
    /\ totalAmount = [r \in Reqs |-> 0]
    /\ cursor = [r \in Reqs |-> 0]
    /\ applied = [r \in Reqs |-> 0]
    /\ adminResp = 0
    /\ ops = 0

InitRequests ==
    /\ InitWorkflow
    /\ query = NoQuery
    /\ strictQuery = TRUE
    /\ served = [pg \in PageParams |-> NotServed]

InitProducts ==
    /\ \E price \in [Pids -> Prices], stock \in [Pids -> 0..MaxStock] :
         products = [p \in Pids |-> Product(p, price[p], stock[p])]
    /\ before = products
    /\ initial = products

Init == InitRequests /\ InitProducts

\* Order placements one after the other, no store failure.
NextSeq ==
    \E r \in Reqs :
        \/ \E b \in Bodies : PlaceOrderAlone(r, b)
        \/ CheckItem(r)
        \/ SaveOrder(r)
        \/ DecItem(r)

SpecSeq == Init /\ [][NextSeq]_vars

\* Order placements interleaved at their store calls, no store failure.
NextOrders ==
    \E r \in Reqs :
        \/ \E b \in Bodies : PlaceOrder(r, b)
        \/ CheckItem(r)
        \/ SaveOrder(r)
        \/ DecItem(r)

SpecOrders == Init /\ [][NextOrders]_vars

\* The store of the specification with the PUT and DELETE endpoints.
InitAdmin ==
    /\ InitRequests
    /\ products = [p \in Pids |-> Product(p, IF p = 1 THEN 10 ELSE 5, MaxStock)]
    /\ before = products
    /\ initial = products

AdminBodies == {b \in Bodies : Len(b.products) <= MaxAdminItems}

\* The whole server: order placements of at most MaxAdminItems line items,
\* interleaved at their store calls, store calls that fail, and the order and
\* product endpoints.
Next ==
    \/ \E r \in Reqs :
        \/ \E b \in AdminBodies : PlaceOrder(r, b)
        \/ CheckItem(r)
        \/ SaveOrder(r)
        \/ DecItem(r)
        \/ StoreFail(r)
        \/ \E b \in StatusBodies : UpdateOrderStatus(r, b)
    \/ \E id \in ItemPids :
        \/ \E b \in ProductBodies : UpdateProduct(id, b)
        \/ DeleteProduct(id)

Spec == InitAdmin /\ [][Next]_vars

\* ---------------- product list queries
Texts ==
    {[name |-> <<"A", "b">>, description |-> <<"a">>],
     [name |-> <<"b">>, description |-> <<"b", "b">>]}

Categories == {<<"A">>, <<"B">>, <<"C">>}

\* Queries with every filter parameter, sorted and paged by default.
InitFilter ==
    /\ InitWorkflow
    /\ \E text \in [Pids -> Texts], price \in [Pids -> Prices],
          category \in [Pids -> Categories], rating \in [Pids -> Opt({3})] :
         products =
           [p \in Pids |->
              Document(p, text[p].name, text[p].description, price[p],
                       MaxStock, category[p], rating[p])]
    /\ query \in
         [searchTerm : Opt({<<"a">>, <<"B", "b">>}),
          minPrice : Opt({"10"}), maxPrice : Opt({"5"}),
          categories : Opt({<<"A">>, <<"A", ",", "B">>}),
          minRating : Opt({"2"}), category : Opt({<<"A">>}),
          sortTerm : {<<>>}, sortOrder : {<<>>}, limit : {<<>>}]
    /\ strictQuery \in BOOLEAN
    /\ served = [pg \in PageParams |-> NotServed]
    /\ before = products
    /\ initial = products

NextFilter == GetProducts(<<>>)

SpecFilter == InitFilter /\ [][NextFilter]_vars

\* Queries with every sort and page parameter.
InitPage ==
    /\ InitWorkflow
    /\ \E price \in [Pids -> Prices],
          category \in [Pids -> {<<"A">>, <<"B">>}] :
         products =
           [p \in Pids |->
              Document(p, <<"a">>, <<"b">>, price[p], MaxStock, category[p],
                       <<>>)]
    /\ query \in
         [searchTerm : {<<>>}, minPrice : {<<>>}, maxPrice : {<<>>},
          categories : {<<>>}, minRating : {<<>>}, category : Opt({<<"A">>}),
          sortTerm : Opt({"price"}), sortOrder : Opt({"desc"}),
          limit : Opt({"abc", "0", "1", "2"})]
    /\ strictQuery \in BOOLEAN
    /\ served = [pg \in PageParams |-> NotServed]
    /\ before = products
    /\ initial = products

NextPage == \E pg \in PageParams : GetProducts(pg)

SpecPage == InitPage /\ [][NextPage]_vars

\* ---------------- what the claims measure
RECURSIVE QtyOf(_, _)
\* The quantity the line items ask of product p, all its line items together.
QtyOf(items, p) ==
    IF items = <<>> THEN 0
    ELSE (IF Head(items).productId = p THEN Head(items).quantity ELSE 0)
         + QtyOf(Tail(items), p)

RECURSIVE PriceSum(_, _)
\* Sum over the line items of unit price x quantity, at the prices of prods.
PriceSum(items, prods) ==
    IF items = <<>> THEN 0
    ELSE FindById(prods, Head(items).productId).price * Head(items).quantity
         + PriceSum(Tail(items), prods)

\* Does line item it fail against the collection prods, and how.
ItemFailure(it, prods) ==
    IF ~FindById(prods, it.productId).exists THEN "NotFound"
    ELSE IF it.quantity > FindById(prods, it.productId).stock
    THEN "InsufficientStock"
    ELSE "none"

\* The failure of the first line item that fails, "none" when none does.
FirstFailure(items, prods) ==
    LET bad == {k \in 1..Len(items) : ItemFailure(items[k], prods) # "none"}
    IN  IF bad = {} THEN "none"
        ELSE ItemFailure(items[CHOOSE k \in bad : \A m \in bad : k <= m], prods)

\* No order placement is in flight.
Quiescent == \A r \in Reqs : pc[r] \notin InFlight

\* ---------------- claims
\* C1: an order placement whose first failing line item asks for more than
\* the product's stock is rejected with 400 (InsufficientStock) when it leaves
\* the validation loop; no order of it is saved and every product's stock is
\* what it was when the request arrived.
C1_InsufficientStockRejects ==
    [][\A r \in Reqs :
         (pc[r] \in InFlight
          /\ FirstFailure(body[r].products, before) = "InsufficientStock")
         => /\ pc'[r] \in {"check", "r400"}
            /\ ~orders'[r].exists
            /\ orders' = orders
            /\ products' = before]_vars

C1_Witness ==
    \E r \in Reqs :
        /\ pc[r] = "r400"
        /\ ~orders[r].exists
        /\ products = before
        /\ \E p \in Pids : products[p].stock = 1

\* C2: an order placement that succeeds when run alone saves an order whose
\* totalAmount is the sum of price x quantity over its line items at the
\* prices of placement, lowers the stock of every product by the quantity
\* ordered of it, and changes no other product.
C2_TotalAndDecrement ==
    [][\A r \in Reqs :
         (pc[r] \in InFlight /\ pc'[r] = "ok")
         => /\ orders'[r].exists
            /\ orders'[r].products = body[r].products
            /\ orders'[r].totalAmount = PriceSum(body[r].products, before)
            /\ \A p \in Pids :
                 /\ products'[p].stock
                      = before[p].stock - QtyOf(body[r].products, p)
                 /\ products'[p].price = before[p].price
                 /\ products'[p].exists = before[p].exists]_vars

C2_Witness ==
    \E r \in Reqs :
        /\ pc[r] = "ok"
        /\ Len(orders[r].products) = 2
        /\ orders[r].products[1].productId # orders[r].products[2].productId
        /\ orders[r].totalAmount = 25
        /\ \A p \in Pids : products[p].stock = 0

C5_StockNonNegative == \A p \in Pids : products[p].stock >= 0

\* C10: once every order placement has finished, each product's stock is its
\* initial stock less the quantities of it in the line items of all saved
\* orders.
C10_StockConservation ==
    Quiescent =>
        \A p \in Pids :
            products[p].stock
              = initial[p].stock
                - (LET S[n \in 0..NReq] ==
                         IF n = 0 THEN 0
                         ELSE S[n - 1] + QtyOf(orders[n].products, p)
                   IN  S[NReq])

C10_Witness ==
    /\ \A r \in Reqs : pc[r] \in Finished
    /\ \E r \in Reqs : pc[r] = "ok" /\ orders[r].products # <<>>
    /\ \E r \in Reqs : pc[r] \in {"r400", "r404"}
    /\ \E p \in Pids : products[p].stock < initial[p].stock

\* C4: when an order placement has finished, either its order is saved and
\* every one of its line items was decremented, or no order of it is saved
\* and it decremented nothing.
C4_AllOrNothing ==
    \A r \in Reqs :
        pc[r] \in Finished
        => \/ orders[r].exists /\ applied[r] = Len(orders[r].products)
           \/ ~orders[r].exists /\ applied[r] = 0

C7_OrderFrozen ==
    [][\A r \in Reqs :
         orders[r].exists
         => /\ orders'[r].exists
            /\ orders'[r].totalAmount = orders[r].totalAmount
            /\ orders'[r].products = orders[r].products
            /\ orders'[r].customer = orders[r].customer]_vars

C7_Witness ==
    \E r \in Reqs :
        /\ orders[r].exists
        /\ orders[r].products # <<>>
        /\ orders[r].status = "shipped"
        /\ orders[r].totalAmount
             # PriceSum(orders[r].products, products)
        /\ \E p \in Pids : ~products[p].exists

\* What the product list is to match: the documents whose name or description
\* contains the search term, letter case ignored, and that pass every filter
\* given.
ClaimMatches(doc, q) ==
    /\ doc.exists
    /\ \/ RegexTest(SearchTerm(q), doc.name)
       \/ RegexTest(SearchTerm(q), doc.description)
    /\ q.minPrice # <<>> => doc.price >= NumberJS(q.minPrice)[1]
    /\ q.maxPrice # <<>> => doc.price <= NumberJS(q.maxPrice)[1]
    /\ q.categories # <<>> => doc.category \in Range(Split(q.categories[1]))
    /\ q.minRating # <<>>
         => doc.rating # <<>> /\ doc.rating[1] >= NumberJS(q.minRating)[1]
    /\ q.category # <<>> => doc.category = q.category[1]

\* C8: the products the list query returns are exactly those that satisfy
\* the search and every filter given; with categories, those whose category
\* is one of the comma-separated names.
C8_FilterIsConjunction ==
    served[<<>>].status = 200
    => Range(served[<<>>].data)
         = {p \in Pids : ClaimMatches(products[p], query)}

\* The number a page or limit parameter stands for: its value, the default
\* when it is absent or not a number.
ParamOr(v, d) == IF NumberJS(v) = <<>> THEN d ELSE NumberJS(v)[1]

\* C9: the responses to the pages of one query are slices of one filtered
\* and sorted sequence: page pg is its slice at offset (page - 1) * limit of
\* at most limit elements, page 1 and limit 10 by default.
C9_PagesAreSlices ==
    \E s \in Orderings(products, query, strictQuery) :
        \A pg \in PageParams :
            served[pg].status = 200
            => served[pg].data
                 = Slice(s, (ParamOr(pg, 1) - 1) * ParamOr(query.limit, 10),
                         ParamOr(query.limit, 10))

====
